---- MODULE Spec2Model ----
(***************************************************************************)
(* Model of tableauserverclient/server/endpoint/datasources_endpoint.py:   *)
(* the Datasources endpoint (get, get_by_id, populate_connections, delete, *)
(* download, update, publish).                                             *)
(*                                                                         *)
(* Python strings that the code parses (paths, file names, header lines,   *)
(* modes, ids) are sequences of one-character strings; URLs are built from *)
(* them with Str and are TLA+ strings.  None is the value None below, which *)
(* is no text (its single element is not a character).  A character that   *)
(* TLA+ cannot write is written as its Python escape with lower-case hex   *)
(* digits: "\\x0b" for '\x0b', "\\xc9" for a Latin-1 letter, "\\u2003" for a   *)
(* character up to U+FFFF, "\\U0001f600" for one above.  The printable       *)
(* characters of ASCII and "\t", "\n", "\f", "\r" are written as themselves,   *)
(* but for the grave accent, "\\x60".                                        *)
(***************************************************************************)
EXTENDS Naturals, Integers, Sequences, FiniteSets, TLC

VARIABLES
    endpoint,   \* the Datasources object: its baseurl template and parent_srv
    server,     \* parent_srv: baseurl and the site_id of the current session
    fs,         \* the local file system: path -> directory, file or symbolic link
    heap,       \* the caller's datasource item, and the copy update() makes
    call        \* the last call: arguments, what it did in order, how it ended

vars == <<endpoint, server, fs, heap, call>>

----------------------------------------------------------------------------
(* Text                                                                    *)

None == <<"<None>">>

\* A test for None alone, which lets the empty string through.
FalsyNoneOnly(v) == v = None

\* Python truthiness of an optional string: None and '' are falsy.
Falsy(v) == v = None \/ v = <<>>

\* ''.join(s[i - 1:j])
RECURSIVE StrRange(_, _, _)
StrRange(s, i, j) ==
    IF i > j THEN ""
    ELSE IF i = j THEN s[i]
    ELSE StrRange(s, i, (i + j) \div 2) \o StrRange(s, ((i + j) \div 2) + 1, j)

\* The characters of s as one TLA+ string.
Str(s) == StrRange(s, 1, Len(s))

\* s[i:j] with 0-based Python slice bounds, 0 <= i, j <= len(s).
Slice(s, i, j) == IF j <= i THEN <<>> ELSE SubSeq(s, i + 1, j)

\* s.find(c, start): the least 0-based index >= start holding c, or -1.
Find(s, c, start) ==
    LET hits == {i \in start..(Len(s) - 1) : s[i + 1] = c}
    IN  IF hits = {} THEN -1 ELSE CHOOSE i \in hits : \A j \in hits : i <= j

\* s.rfind(c): the greatest 0-based index holding c, or -1.
RFind(s, c) ==
    LET hits == {i \in 0..(Len(s) - 1) : s[i + 1] = c}
    IN  IF hits = {} THEN -1 ELSE CHOOSE i \in hits : \A j \in hits : j <= i

\* s.count(c, 0, end) for a single character c.
Count(s, c, end) == Cardinality({i \in 0..(end - 1) : i < Len(s) /\ s[i + 1] = c})

\* s.count('\\"', 0, end): occurrences of backslash-quote lying within s[0:end].
CountEscapedQuote(s, end) ==
    Cardinality({i \in 0..(end - 2) : i + 1 < Len(s) /\ s[i + 1] = "\\" /\ s[i + 2] = "\""})

\* The characters str.strip() removes: those str.isspace() holds of.
IsSpace(c) ==
    c \in {" ", "\t", "\n", "\r", "\f", "\\x0b", "\\x1c", "\\x1d", "\\x1e", "\\x1f",
           "\\x85", "\\xa0",
           "\\u1680", "\\u2000", "\\u2001", "\\u2002", "\\u2003", "\\u2004",
           "\\u2005", "\\u2006", "\\u2007", "\\u2008", "\\u2009", "\\u200a",
           "\\u2028", "\\u2029", "\\u202f", "\\u205f", "\\u3000"}

\* s.strip()
Strip(s) ==
    LET kept == {i \in 1..Len(s) : ~IsSpace(s[i])}
    IN  IF kept = {} THEN <<>>
        ELSE SubSeq(s, CHOOSE i \in kept : \A j \in kept : i <= j,
                       CHOOSE i \in kept : \A j \in kept : j <= i)

\* The printable characters of ASCII, from ' ' (32) to '~' (126); the grave
\* accent, which cannot stand in a string here, is written as its escape.
Ascii ==
    <<" ", "!", "\"", "#", "$", "%", "&", "'", "(", ")", "*", "+", ",", "-", ".", "/",
      "0", "1", "2", "3", "4", "5", "6", "7", "8", "9", ":", ";", "<", "=", ">", "?",
      "@", "A", "B", "C", "D", "E", "F", "G", "H", "I", "J", "K", "L", "M", "N", "O",
      "P", "Q", "R", "S", "T", "U", "V", "W", "X", "Y", "Z", "[", "\\", "]", "^", "_",
      "\\x60", "a", "b", "c", "d", "e", "f", "g", "h", "i", "j", "k", "l", "m", "n", "o",
      "p", "q", "r", "s", "t", "u", "v", "w", "x", "y", "z", "{", "|", "}", "~">>

HexDigits == <<"0","1","2","3","4","5","6","7","8","9","a","b","c","d","e","f">>

\* int(h, 16) for the digits h of an escape
RECURSIVE HexNumber(_)
HexNumber(h) ==
    IF Len(h) = 0 THEN 0
    ELSE 16 * HexNumber(SubSeq(h, 1, Len(h) - 1))
         + (CHOOSE v \in 0..15 : HexDigits[v + 1] = SubSeq(h, Len(h), Len(h)))

\* '%0<width>x' % n
RECURSIVE HexString(_, _)
HexString(n, width) ==
    IF width = 0 THEN "" ELSE HexString(n \div 16, width - 1) \o HexDigits[(n % 16) + 1]

\* ord(c): the code point of a character.
Ord(c) ==
    IF Len(c) > 1 THEN HexNumber(SubSeq(c, 3, Len(c)))
    ELSE CASE c = "\t" -> 9
           [] c = "\n" -> 10
           [] c = "\f" -> 12
           [] c = "\r" -> 13
           [] OTHER -> 31 + CHOOSE i \in 1..Len(Ascii) : Ascii[i] = c

\* chr(n): the character of a code point, as it is written here.
Chr(n) ==
    CASE n = 9 -> "\t"
      [] n = 10 -> "\n"
      [] n = 12 -> "\f"
      [] n = 13 -> "\r"
      [] 32 <= n /\ n <= 126 -> Ascii[n - 31]
      [] OTHER -> IF n < 256 THEN "\\x" \o HexString(n, 2)
                  ELSE IF n < 65536 THEN "\\u" \o HexString(n, 4)
                  ELSE "\\U" \o HexString(n, 8)

Upper == <<"A","B","C","D","E","F","G","H","I","J","K","L","M",
           "N","O","P","Q","R","S","T","U","V","W","X","Y","Z">>
LowerLetters == <<"a","b","c","d","e","f","g","h","i","j","k","l","m",
           "n","o","p","q","r","s","t","u","v","w","x","y","z">>

\* The lower case of the characters that have one of a single character
\* (Unicode 14.0): the characters lo, lo + step, .. hi have the lower case
\* delta further, as <<lo, hi, step, delta>>.
LowerRuns ==
    <<<<65, 90, 1, 32>>, <<192, 214, 1, 32>>, <<216, 222, 1, 32>>,
      <<256, 302, 2, 1>>, <<306, 310, 2, 1>>, <<313, 327, 2, 1>>,
      <<330, 374, 2, 1>>, <<376, 376, 1, -121>>, <<377, 381, 2, 1>>,
      <<385, 385, 1, 210>>, <<386, 388, 2, 1>>, <<390, 390, 1, 206>>,
      <<391, 391, 1, 1>>, <<393, 394, 1, 205>>, <<395, 395, 1, 1>>,
      <<398, 398, 1, 79>>, <<399, 399, 1, 202>>, <<400, 400, 1, 203>>,
      <<401, 401, 1, 1>>, <<403, 403, 1, 205>>, <<404, 404, 1, 207>>,
      <<406, 406, 1, 211>>, <<407, 407, 1, 209>>, <<408, 408, 1, 1>>,
      <<412, 412, 1, 211>>, <<413, 413, 1, 213>>, <<415, 415, 1, 214>>,
      <<416, 420, 2, 1>>, <<422, 422, 1, 218>>, <<423, 423, 1, 1>>,
      <<425, 425, 1, 218>>, <<428, 428, 1, 1>>, <<430, 430, 1, 218>>,
      <<431, 431, 1, 1>>, <<433, 434, 1, 217>>, <<435, 437, 2, 1>>,
      <<439, 439, 1, 219>>, <<440, 440, 1, 1>>, <<444, 444, 1, 1>>,
      <<452, 452, 1, 2>>, <<453, 453, 1, 1>>, <<455, 455, 1, 2>>,
      <<456, 456, 1, 1>>, <<458, 458, 1, 2>>, <<459, 475, 2, 1>>,
      <<478, 494, 2, 1>>, <<497, 497, 1, 2>>, <<498, 500, 2, 1>>,
      <<502, 502, 1, -97>>, <<503, 503, 1, -56>>, <<504, 542, 2, 1>>,
      <<544, 544, 1, -130>>, <<546, 562, 2, 1>>, <<570, 570, 1, 10795>>,
      <<571, 571, 1, 1>>, <<573, 573, 1, -163>>, <<574, 574, 1, 10792>>,
      <<577, 577, 1, 1>>, <<579, 579, 1, -195>>, <<580, 580, 1, 69>>,
      <<581, 581, 1, 71>>, <<582, 590, 2, 1>>, <<880, 882, 2, 1>>,
      <<886, 886, 1, 1>>, <<895, 895, 1, 116>>, <<902, 902, 1, 38>>,
      <<904, 906, 1, 37>>, <<908, 908, 1, 64>>, <<910, 911, 1, 63>>,
      <<913, 929, 1, 32>>, <<932, 939, 1, 32>>, <<975, 975, 1, 8>>,
      <<984, 1006, 2, 1>>, <<1012, 1012, 1, -60>>, <<1015, 1015, 1, 1>>,
      <<1017, 1017, 1, -7>>, <<1018, 1018, 1, 1>>, <<1021, 1023, 1, -130>>,
      <<1024, 1039, 1, 80>>, <<1040, 1071, 1, 32>>, <<1120, 1152, 2, 1>>,
      <<1162, 1214, 2, 1>>, <<1216, 1216, 1, 15>>, <<1217, 1229, 2, 1>>,
      <<1232, 1326, 2, 1>>, <<1329, 1366, 1, 48>>, <<4256, 4293, 1, 7264>>,
      <<4295, 4295, 1, 7264>>, <<4301, 4301, 1, 7264>>, <<5024, 5103, 1, 38864>>,
      <<5104, 5109, 1, 8>>, <<7312, 7354, 1, -3008>>, <<7357, 7359, 1, -3008>>,
      <<7680, 7828, 2, 1>>, <<7838, 7838, 1, -7615>>, <<7840, 7934, 2, 1>>,
      <<7944, 7951, 1, -8>>, <<7960, 7965, 1, -8>>, <<7976, 7983, 1, -8>>,
      <<7992, 7999, 1, -8>>, <<8008, 8013, 1, -8>>, <<8025, 8031, 2, -8>>,
      <<8040, 8047, 1, -8>>, <<8072, 8079, 1, -8>>, <<8088, 8095, 1, -8>>,
      <<8104, 8111, 1, -8>>, <<8120, 8121, 1, -8>>, <<8122, 8123, 1, -74>>,
      <<8124, 8124, 1, -9>>, <<8136, 8139, 1, -86>>, <<8140, 8140, 1, -9>>,
      <<8152, 8153, 1, -8>>, <<8154, 8155, 1, -100>>, <<8168, 8169, 1, -8>>,
      <<8170, 8171, 1, -112>>, <<8172, 8172, 1, -7>>, <<8184, 8185, 1, -128>>,
      <<8186, 8187, 1, -126>>, <<8188, 8188, 1, -9>>, <<8486, 8486, 1, -7517>>,
      <<8490, 8490, 1, -8383>>, <<8491, 8491, 1, -8262>>, <<8498, 8498, 1, 28>>,
      <<8544, 8559, 1, 16>>, <<8579, 8579, 1, 1>>, <<9398, 9423, 1, 26>>,
      <<11264, 11311, 1, 48>>, <<11360, 11360, 1, 1>>, <<11362, 11362, 1, -10743>>,
      <<11363, 11363, 1, -3814>>, <<11364, 11364, 1, -10727>>, <<11367, 11371, 2, 1>>,
      <<11373, 11373, 1, -10780>>, <<11374, 11374, 1, -10749>>, <<11375, 11375, 1, -10783>>,
      <<11376, 11376, 1, -10782>>, <<11378, 11378, 1, 1>>, <<11381, 11381, 1, 1>>,
      <<11390, 11391, 1, -10815>>, <<11392, 11490, 2, 1>>, <<11499, 11501, 2, 1>>,
      <<11506, 11506, 1, 1>>, <<42560, 42604, 2, 1>>, <<42624, 42650, 2, 1>>,
      <<42786, 42798, 2, 1>>, <<42802, 42862, 2, 1>>, <<42873, 42875, 2, 1>>,
      <<42877, 42877, 1, -35332>>, <<42878, 42886, 2, 1>>, <<42891, 42891, 1, 1>>,
      <<42893, 42893, 1, -42280>>, <<42896, 42898, 2, 1>>, <<42902, 42920, 2, 1>>,
      <<42922, 42922, 1, -42308>>, <<42923, 42923, 1, -42319>>, <<42924, 42924, 1, -42315>>,
      <<42925, 42925, 1, -42305>>, <<42926, 42926, 1, -42308>>, <<42928, 42928, 1, -42258>>,
      <<42929, 42929, 1, -42282>>, <<42930, 42930, 1, -42261>>, <<42931, 42931, 1, 928>>,
      <<42932, 42946, 2, 1>>, <<42948, 42948, 1, -48>>, <<42949, 42949, 1, -42307>>,
      <<42950, 42950, 1, -35384>>, <<42951, 42953, 2, 1>>, <<42960, 42960, 1, 1>>,
      <<42966, 42968, 2, 1>>, <<42997, 42997, 1, 1>>, <<65313, 65338, 1, 32>>,
      <<66560, 66599, 1, 40>>, <<66736, 66771, 1, 40>>, <<66928, 66938, 1, 39>>,
      <<66940, 66954, 1, 39>>, <<66956, 66962, 1, 39>>, <<66964, 66965, 1, 39>>,
      <<68736, 68786, 1, 64>>, <<71840, 71871, 1, 32>>, <<93760, 93791, 1, 32>>,
      <<125184, 125217, 1, 34>>>>

\* The characters that are cased and not case-ignorable, as <<first, last>>.
CasedRuns ==
    <<<<65, 90>>, <<97, 122>>, <<170, 170>>, <<181, 181>>, <<186, 186>>,
      <<192, 214>>, <<216, 246>>, <<248, 442>>, <<444, 447>>, <<452, 659>>,
      <<661, 687>>, <<880, 883>>, <<886, 887>>, <<891, 893>>, <<895, 895>>,
      <<902, 902>>, <<904, 906>>, <<908, 908>>, <<910, 929>>, <<931, 1013>>,
      <<1015, 1153>>, <<1162, 1327>>, <<1329, 1366>>, <<1376, 1416>>, <<4256, 4293>>,
      <<4295, 4295>>, <<4301, 4301>>, <<4304, 4346>>, <<4349, 4351>>, <<5024, 5109>>,
      <<5112, 5117>>, <<7296, 7304>>, <<7312, 7354>>, <<7357, 7359>>, <<7424, 7467>>,
      <<7531, 7543>>, <<7545, 7578>>, <<7680, 7957>>, <<7960, 7965>>, <<7968, 8005>>,
      <<8008, 8013>>, <<8016, 8023>>, <<8025, 8025>>, <<8027, 8027>>, <<8029, 8029>>,
      <<8031, 8061>>, <<8064, 8116>>, <<8118, 8124>>, <<8126, 8126>>, <<8130, 8132>>,
      <<8134, 8140>>, <<8144, 8147>>, <<8150, 8155>>, <<8160, 8172>>, <<8178, 8180>>,
      <<8182, 8188>>, <<8450, 8450>>, <<8455, 8455>>, <<8458, 8467>>, <<8469, 8469>>,
      <<8473, 8477>>, <<8484, 8484>>, <<8486, 8486>>, <<8488, 8488>>, <<8490, 8493>>,
      <<8495, 8500>>, <<8505, 8505>>, <<8508, 8511>>, <<8517, 8521>>, <<8526, 8526>>,
      <<8544, 8575>>, <<8579, 8580>>, <<9398, 9449>>, <<11264, 11387>>, <<11390, 11492>>,
      <<11499, 11502>>, <<11506, 11507>>, <<11520, 11557>>, <<11559, 11559>>, <<11565, 11565>>,
      <<42560, 42605>>, <<42624, 42651>>, <<42786, 42863>>, <<42865, 42887>>, <<42891, 42894>>,
      <<42896, 42954>>, <<42960, 42961>>, <<42963, 42963>>, <<42965, 42969>>, <<42997, 42998>>,
      <<43002, 43002>>, <<43824, 43866>>, <<43872, 43880>>, <<43888, 43967>>, <<64256, 64262>>,
      <<64275, 64279>>, <<65313, 65338>>, <<65345, 65370>>, <<66560, 66639>>, <<66736, 66771>>,
      <<66776, 66811>>, <<66928, 66938>>, <<66940, 66954>>, <<66956, 66962>>, <<66964, 66965>>,
      <<66967, 66977>>, <<66979, 66993>>, <<66995, 67001>>, <<67003, 67004>>, <<68736, 68786>>,
      <<68800, 68850>>, <<71840, 71903>>, <<93760, 93823>>, <<119808, 119892>>, <<119894, 119964>>,
      <<119966, 119967>>, <<119970, 119970>>, <<119973, 119974>>, <<119977, 119980>>, <<119982, 119993>>,
      <<119995, 119995>>, <<119997, 120003>>, <<120005, 120069>>, <<120071, 120074>>, <<120077, 120084>>,
      <<120086, 120092>>, <<120094, 120121>>, <<120123, 120126>>, <<120128, 120132>>, <<120134, 120134>>,
      <<120138, 120144>>, <<120146, 120485>>, <<120488, 120512>>, <<120514, 120538>>, <<120540, 120570>>,
      <<120572, 120596>>, <<120598, 120628>>, <<120630, 120654>>, <<120656, 120686>>, <<120688, 120712>>,
      <<120714, 120744>>, <<120746, 120770>>, <<120772, 120779>>, <<122624, 122633>>, <<122635, 122654>>,
      <<125184, 125251>>, <<127280, 127305>>, <<127312, 127337>>, <<127344, 127369>>>>

\* The characters that are case-ignorable, as <<first, last>>.
CaseIgnorableRuns ==
    <<<<39, 39>>, <<46, 46>>, <<58, 58>>, <<94, 94>>, <<96, 96>>,
      <<168, 168>>, <<173, 173>>, <<175, 175>>, <<180, 180>>, <<183, 184>>,
      <<688, 879>>, <<884, 885>>, <<890, 890>>, <<900, 901>>, <<903, 903>>,
      <<1155, 1161>>, <<1369, 1369>>, <<1375, 1375>>, <<1425, 1469>>, <<1471, 1471>>,
      <<1473, 1474>>, <<1476, 1477>>, <<1479, 1479>>, <<1524, 1524>>, <<1536, 1541>>,
      <<1552, 1562>>, <<1564, 1564>>, <<1600, 1600>>, <<1611, 1631>>, <<1648, 1648>>,
      <<1750, 1757>>, <<1759, 1768>>, <<1770, 1773>>, <<1807, 1807>>, <<1809, 1809>>,
      <<1840, 1866>>, <<1958, 1968>>, <<2027, 2037>>, <<2042, 2042>>, <<2045, 2045>>,
      <<2070, 2093>>, <<2137, 2139>>, <<2184, 2184>>, <<2192, 2193>>, <<2200, 2207>>,
      <<2249, 2306>>, <<2362, 2362>>, <<2364, 2364>>, <<2369, 2376>>, <<2381, 2381>>,
      <<2385, 2391>>, <<2402, 2403>>, <<2417, 2417>>, <<2433, 2433>>, <<2492, 2492>>,
      <<2497, 2500>>, <<2509, 2509>>, <<2530, 2531>>, <<2558, 2558>>, <<2561, 2562>>,
      <<2620, 2620>>, <<2625, 2626>>, <<2631, 2632>>, <<2635, 2637>>, <<2641, 2641>>,
      <<2672, 2673>>, <<2677, 2677>>, <<2689, 2690>>, <<2748, 2748>>, <<2753, 2757>>,
      <<2759, 2760>>, <<2765, 2765>>, <<2786, 2787>>, <<2810, 2815>>, <<2817, 2817>>,
      <<2876, 2876>>, <<2879, 2879>>, <<2881, 2884>>, <<2893, 2893>>, <<2901, 2902>>,
      <<2914, 2915>>, <<2946, 2946>>, <<3008, 3008>>, <<3021, 3021>>, <<3072, 3072>>,
      <<3076, 3076>>, <<3132, 3132>>, <<3134, 3136>>, <<3142, 3144>>, <<3146, 3149>>,
      <<3157, 3158>>, <<3170, 3171>>, <<3201, 3201>>, <<3260, 3260>>, <<3263, 3263>>,
      <<3270, 3270>>, <<3276, 3277>>, <<3298, 3299>>, <<3328, 3329>>, <<3387, 3388>>,
      <<3393, 3396>>, <<3405, 3405>>, <<3426, 3427>>, <<3457, 3457>>, <<3530, 3530>>,
      <<3538, 3540>>, <<3542, 3542>>, <<3633, 3633>>, <<3636, 3642>>, <<3654, 3662>>,
      <<3761, 3761>>, <<3764, 3772>>, <<3782, 3782>>, <<3784, 3789>>, <<3864, 3865>>,
      <<3893, 3893>>, <<3895, 3895>>, <<3897, 3897>>, <<3953, 3966>>, <<3968, 3972>>,
      <<3974, 3975>>, <<3981, 3991>>, <<3993, 4028>>, <<4038, 4038>>, <<4141, 4144>>,
      <<4146, 4151>>, <<4153, 4154>>, <<4157, 4158>>, <<4184, 4185>>, <<4190, 4192>>,
      <<4209, 4212>>, <<4226, 4226>>, <<4229, 4230>>, <<4237, 4237>>, <<4253, 4253>>,
      <<4348, 4348>>, <<4957, 4959>>, <<5906, 5908>>, <<5938, 5939>>, <<5970, 5971>>,
      <<6002, 6003>>, <<6068, 6069>>, <<6071, 6077>>, <<6086, 6086>>, <<6089, 6099>>,
      <<6103, 6103>>, <<6109, 6109>>, <<6155, 6159>>, <<6211, 6211>>, <<6277, 6278>>,
      <<6313, 6313>>, <<6432, 6434>>, <<6439, 6440>>, <<6450, 6450>>, <<6457, 6459>>,
      <<6679, 6680>>, <<6683, 6683>>, <<6742, 6742>>, <<6744, 6750>>, <<6752, 6752>>,
      <<6754, 6754>>, <<6757, 6764>>, <<6771, 6780>>, <<6783, 6783>>, <<6823, 6823>>,
      <<6832, 6862>>, <<6912, 6915>>, <<6964, 6964>>, <<6966, 6970>>, <<6972, 6972>>,
      <<6978, 6978>>, <<7019, 7027>>, <<7040, 7041>>, <<7074, 7077>>, <<7080, 7081>>,
      <<7083, 7085>>, <<7142, 7142>>, <<7144, 7145>>, <<7149, 7149>>, <<7151, 7153>>,
      <<7212, 7219>>, <<7222, 7223>>, <<7288, 7293>>, <<7376, 7378>>, <<7380, 7392>>,
      <<7394, 7400>>, <<7405, 7405>>, <<7412, 7412>>, <<7416, 7417>>, <<7468, 7530>>,
      <<7544, 7544>>, <<7579, 7679>>, <<8125, 8125>>, <<8127, 8129>>, <<8141, 8143>>,
      <<8157, 8159>>, <<8173, 8175>>, <<8189, 8190>>, <<8203, 8207>>, <<8216, 8217>>,
      <<8228, 8228>>, <<8231, 8231>>, <<8234, 8238>>, <<8288, 8292>>, <<8294, 8303>>,
      <<8305, 8305>>, <<8319, 8319>>, <<8336, 8348>>, <<8400, 8432>>, <<11388, 11389>>,
      <<11503, 11505>>, <<11631, 11631>>, <<11647, 11647>>, <<11744, 11775>>, <<11823, 11823>>,
      <<12293, 12293>>, <<12330, 12333>>, <<12337, 12341>>, <<12347, 12347>>, <<12441, 12446>>,
      <<12540, 12542>>, <<40981, 40981>>, <<42232, 42237>>, <<42508, 42508>>, <<42607, 42610>>,
      <<42612, 42621>>, <<42623, 42623>>, <<42652, 42655>>, <<42736, 42737>>, <<42752, 42785>>,
      <<42864, 42864>>, <<42888, 42890>>, <<42994, 42996>>, <<43000, 43001>>, <<43010, 43010>>,
      <<43014, 43014>>, <<43019, 43019>>, <<43045, 43046>>, <<43052, 43052>>, <<43204, 43205>>,
      <<43232, 43249>>, <<43263, 43263>>, <<43302, 43309>>, <<43335, 43345>>, <<43392, 43394>>,
      <<43443, 43443>>, <<43446, 43449>>, <<43452, 43453>>, <<43471, 43471>>, <<43493, 43494>>,
      <<43561, 43566>>, <<43569, 43570>>, <<43573, 43574>>, <<43587, 43587>>, <<43596, 43596>>,
      <<43632, 43632>>, <<43644, 43644>>, <<43696, 43696>>, <<43698, 43700>>, <<43703, 43704>>,
      <<43710, 43711>>, <<43713, 43713>>, <<43741, 43741>>, <<43756, 43757>>, <<43763, 43764>>,
      <<43766, 43766>>, <<43867, 43871>>, <<43881, 43883>>, <<44005, 44005>>, <<44008, 44008>>,
      <<44013, 44013>>, <<64286, 64286>>, <<64434, 64450>>, <<65024, 65039>>, <<65043, 65043>>,
      <<65056, 65071>>, <<65106, 65106>>, <<65109, 65109>>, <<65279, 65279>>, <<65287, 65287>>,
      <<65294, 65294>>, <<65306, 65306>>, <<65342, 65342>>, <<65344, 65344>>, <<65392, 65392>>,
      <<65438, 65439>>, <<65507, 65507>>, <<65529, 65531>>, <<66045, 66045>>, <<66272, 66272>>,
      <<66422, 66426>>, <<67456, 67461>>, <<67463, 67504>>, <<67506, 67514>>, <<68097, 68099>>,
      <<68101, 68102>>, <<68108, 68111>>, <<68152, 68154>>, <<68159, 68159>>, <<68325, 68326>>,
      <<68900, 68903>>, <<69291, 69292>>, <<69446, 69456>>, <<69506, 69509>>, <<69633, 69633>>,
      <<69688, 69702>>, <<69744, 69744>>, <<69747, 69748>>, <<69759, 69761>>, <<69811, 69814>>,
      <<69817, 69818>>, <<69821, 69821>>, <<69826, 69826>>, <<69837, 69837>>, <<69888, 69890>>,
      <<69927, 69931>>, <<69933, 69940>>, <<70003, 70003>>, <<70016, 70017>>, <<70070, 70078>>,
      <<70089, 70092>>, <<70095, 70095>>, <<70191, 70193>>, <<70196, 70196>>, <<70198, 70199>>,
      <<70206, 70206>>, <<70367, 70367>>, <<70371, 70378>>, <<70400, 70401>>, <<70459, 70460>>,
      <<70464, 70464>>, <<70502, 70508>>, <<70512, 70516>>, <<70712, 70719>>, <<70722, 70724>>,
      <<70726, 70726>>, <<70750, 70750>>, <<70835, 70840>>, <<70842, 70842>>, <<70847, 70848>>,
      <<70850, 70851>>, <<71090, 71093>>, <<71100, 71101>>, <<71103, 71104>>, <<71132, 71133>>,
      <<71219, 71226>>, <<71229, 71229>>, <<71231, 71232>>, <<71339, 71339>>, <<71341, 71341>>,
      <<71344, 71349>>, <<71351, 71351>>, <<71453, 71455>>, <<71458, 71461>>, <<71463, 71467>>,
      <<71727, 71735>>, <<71737, 71738>>, <<71995, 71996>>, <<71998, 71998>>, <<72003, 72003>>,
      <<72148, 72151>>, <<72154, 72155>>, <<72160, 72160>>, <<72193, 72202>>, <<72243, 72248>>,
      <<72251, 72254>>, <<72263, 72263>>, <<72273, 72278>>, <<72281, 72283>>, <<72330, 72342>>,
      <<72344, 72345>>, <<72752, 72758>>, <<72760, 72765>>, <<72767, 72767>>, <<72850, 72871>>,
      <<72874, 72880>>, <<72882, 72883>>, <<72885, 72886>>, <<73009, 73014>>, <<73018, 73018>>,
      <<73020, 73021>>, <<73023, 73029>>, <<73031, 73031>>, <<73104, 73105>>, <<73109, 73109>>,
      <<73111, 73111>>, <<73459, 73460>>, <<78896, 78904>>, <<92912, 92916>>, <<92976, 92982>>,
      <<92992, 92995>>, <<94031, 94031>>, <<94095, 94111>>, <<94176, 94177>>, <<94179, 94180>>,
      <<110576, 110579>>, <<110581, 110587>>, <<110589, 110590>>, <<113821, 113822>>, <<113824, 113827>>,
      <<118528, 118573>>, <<118576, 118598>>, <<119143, 119145>>, <<119155, 119170>>, <<119173, 119179>>,
      <<119210, 119213>>, <<119362, 119364>>, <<121344, 121398>>, <<121403, 121452>>, <<121461, 121461>>,
      <<121476, 121476>>, <<121499, 121503>>, <<121505, 121519>>, <<122880, 122886>>, <<122888, 122904>>,
      <<122907, 122913>>, <<122915, 122916>>, <<122918, 122922>>, <<123184, 123197>>, <<123566, 123566>>,
      <<123628, 123631>>, <<125136, 125142>>, <<125252, 125259>>, <<127995, 127999>>, <<917505, 917505>>,
      <<917536, 917631>>, <<917760, 917999>>>>

InRuns(n, runs) == \E i \in 1..Len(runs) : runs[i][1] <= n /\ n <= runs[i][2]

Cased(c) == InRuns(Ord(c), CasedRuns)
CaseIgnorable(c) == InRuns(Ord(c), CaseIgnorableRuns)

\* The code points of chr(n).lower() when runs are the runs of LowerRuns that
\* hold n; only U+0130 has a lower case of two.
LowerFrom(n, runs) ==
    IF n = 304 THEN <<105, 775>>
    ELSE IF n = 931 THEN <<963>>
    ELSE IF runs = {} THEN <<n>>
    ELSE <<n + (CHOOSE r \in runs : TRUE)[4]>>

\* The code points of chr(n).lower()
LowerOrd(n) ==
    LowerFrom(n, {r \in {LowerRuns[i] : i \in 1..Len(LowerRuns)} :
                     r[1] <= n /\ n <= r[2] /\ (n - r[1]) % r[3] = 0})

\* The characters of the code points low: c itself when low is its own code
\* point n.
LowerText(c, n, low) == IF low = <<n>> THEN <<c>> ELSE [i \in 1..Len(low) |-> Chr(low[i])]

\* c.lower() for a character c: a string of one character, or of two.
LowerChar(c) ==
    IF Len(c) = 1
    THEN IF \E i \in 1..26 : Upper[i] = c
         THEN <<LowerLetters[CHOOSE i \in 1..26 : Upper[i] = c]>>
         ELSE <<c>>
    ELSE LowerText(c, Ord(c), LowerOrd(Ord(c)))

\* Whether the capital sigma s[i] ends a word: a cased character comes before
\* it and none after it, case-ignorable characters passed over.
FinalSigma(s, i) ==
    LET before == {j \in 1..(i - 1) : ~CaseIgnorable(s[j])}
        after  == {j \in (i + 1)..Len(s) : ~CaseIgnorable(s[j])}
        last   == CHOOSE j \in before : \A k \in before : k <= j
        next   == CHOOSE j \in after : \A k \in after : j <= k
    IN  /\ before # {}
        /\ Cased(s[last])
        /\ after = {} \/ ~Cased(s[next])

\* s[i - 1:j].lower() within s
RECURSIVE LowerRange(_, _, _)
LowerRange(s, i, j) ==
    IF i > j THEN <<>>
    ELSE IF i = j
    THEN IF s[i] = "\\u03a3"
         THEN IF FinalSigma(s, i) THEN <<"\\u03c2">> ELSE <<"\\u03c3">>
         ELSE LowerChar(s[i])
    ELSE LowerRange(s, i, (i + j) \div 2) \o LowerRange(s, ((i + j) \div 2) + 1, j)

\* s.lower()
Lower(s) == LowerRange(s, 1, Len(s))

\* Whether s.replace(a + b, b) finds the pattern a b at s[i], scanning left
\* to right: in a run of a's the pattern a a is found at every second one.
ReplacedAt(s, a, b, i) ==
    /\ i < Len(s)
    /\ s[i] = a
    /\ s[i + 1] = b
    /\ a = b => LET others == {j \in 0..(i - 1) : j = 0 \/ s[j] # a}
                     before == CHOOSE j \in others : \A k \in others : k <= j
                 IN  (i - 1 - before) % 2 = 0

\* s[i - 1:j] of s.replace(a + b, b): the a of every pattern found is left out.
RECURSIVE ReplaceRange(_, _, _, _, _)
ReplaceRange(s, a, b, i, j) ==
    IF i > j THEN <<>>
    ELSE IF i = j THEN (IF ReplacedAt(s, a, b, i) THEN <<>> ELSE <<s[i]>>)
    ELSE ReplaceRange(s, a, b, i, (i + j) \div 2)
         \o ReplaceRange(s, a, b, ((i + j) \div 2) + 1, j)

\* s.replace(a + b, b) for the two-character pattern a b
ReplacePair(s, a, b) == ReplaceRange(s, a, b, 1, Len(s))

----------------------------------------------------------------------------
(* os.path (posixpath)                                                     *)

\* os.path.basename(p): what follows the last slash.
Basename(p) == Slice(p, RFind(p, "/") + 1, Len(p))

\* os.path.splitext(p): the extension starts at the last dot of the last
\* component, unless only dots precede it in that component.
Splitext(p) ==
    LET sepIndex == RFind(p, "/")
        dotIndex == RFind(p, ".")
    IN  IF dotIndex > sepIndex
           /\ \E k \in (sepIndex + 1)..(dotIndex - 1) : p[k + 1] # "."
        THEN <<Slice(p, 0, dotIndex), Slice(p, dotIndex, Len(p))>>
        ELSE <<p, <<>> >>

\* os.path.join(a, b)
Join(a, b) ==
    IF b # <<>> /\ Head(b) = "/" THEN b
    ELSE IF a = <<>> \/ a[Len(a)] = "/" THEN a \o b
    ELSE a \o <<"/">> \o b

\* p.split('/')
RECURSIVE SplitSlash(_)
SplitSlash(p) ==
    LET i == Find(p, "/", 0)
    IN  IF i < 0 THEN <<p>>
        ELSE <<Slice(p, 0, i)>> \o SplitSlash(Slice(p, i + 1, Len(p)))

\* The component loop of os.path.normpath.
RECURSIVE NormComps(_, _, _)
NormComps(comps, acc, rooted) ==
    IF comps = <<>> THEN acc
    ELSE LET c == Head(comps)
             up == <<".", ".">>
         IN  IF c = <<>> \/ c = <<".">>
             THEN NormComps(Tail(comps), acc, rooted)
             ELSE IF c # up \/ (~rooted /\ acc = <<>>)
                          \/ (acc # <<>> /\ acc[Len(acc)] = up)
             THEN NormComps(Tail(comps), Append(acc, c), rooted)
             ELSE IF acc # <<>>
             THEN NormComps(Tail(comps), SubSeq(acc, 1, Len(acc) - 1), rooted)
             ELSE NormComps(Tail(comps), acc, rooted)

RECURSIVE JoinSlash(_)
JoinSlash(comps) ==
    IF comps = <<>> THEN <<>>
    ELSE IF Len(comps) = 1 THEN comps[1]
    ELSE comps[1] \o <<"/">> \o JoinSlash(Tail(comps))

\* os.path.normpath(p)
Normpath(p) ==
    IF p = <<>> THEN <<".">>
    ELSE LET rooted  == Head(p) = "/"
             slashes == IF ~rooted THEN 0
                        ELSE IF Len(p) >= 2 /\ p[2] = "/" /\ ~(Len(p) >= 3 /\ p[3] = "/")
                        THEN 2 ELSE 1
             body    == JoinSlash(NormComps(SplitSlash(p), <<>>, rooted))
             path    == [i \in 1..slashes |-> "/"] \o body
         IN  IF path = <<>> THEN <<".">> ELSE path

\* os.getcwd()
Cwd == <<"/","w">>

\* os.path.abspath(p)
Abspath(p) == Normpath(IF p # <<>> /\ Head(p) = "/" THEN p ELSE Join(Cwd, p))

----------------------------------------------------------------------------
(* cgi.parse_header                                                        *)

\* The inner loop of cgi._parseparam: the end of the field starting s, the
\* first semicolon that is not inside a quoted string.
RECURSIVE FieldEnd(_, _)
FieldEnd(s, end) ==
    IF end > 0 /\ (Count(s, "\"", end) - CountEscapedQuote(s, end)) % 2 = 1
    THEN FieldEnd(s, Find(s, ";", end + 1))
    ELSE IF end < 0 THEN Len(s) ELSE end

\* cgi._parseparam(s): the stripped fields of a header line.
RECURSIVE ParseParam(_)
ParseParam(s) ==
    IF s = <<>> \/ Head(s) # ";" THEN <<>>
    ELSE LET t   == Tail(s)
             end == FieldEnd(t, Find(t, ";", 0))
         IN  <<Strip(Slice(t, 0, end))>> \o ParseParam(Slice(t, end, Len(t)))

\* The value of one parameter: stripped, and unquoted when in double quotes.
ParamValue(raw) ==
    LET v == Strip(raw)
    IN  IF Len(v) >= 2 /\ v[1] = "\"" /\ v[Len(v)] = "\""
        THEN ReplacePair(ReplacePair(SubSeq(v, 2, Len(v) - 1), "\\", "\\"), "\\", "\"")
        ELSE v

\* The name=value fields of a header line: <<name, value>> pairs in order.
RECURSIVE ParamPairs(_)
ParamPairs(parts) ==
    IF parts = <<>> THEN <<>>
    ELSE LET p == Head(parts)
             i == Find(p, "=", 0)
         IN  (IF i >= 0
              THEN << <<Lower(Strip(Slice(p, 0, i))), ParamValue(Slice(p, i + 1, Len(p)))>> >>
              ELSE <<>>)
             \o ParamPairs(Tail(parts))

\* dict(pairs): a later pair of the same name replaces an earlier one.
Dict(pairs) ==
    [n \in {pairs[i][1] : i \in 1..Len(pairs)} |->
        pairs[CHOOSE i \in 1..Len(pairs) :
                 pairs[i][1] = n /\ \A j \in 1..Len(pairs) : pairs[j][1] = n => j <= i][2]]

\* cgi.parse_header(line)[1]: the parameter dict
ParseHeader(line) == Dict(ParamPairs(Tail(ParseParam(<<";">> \o line))))

----------------------------------------------------------------------------
(* str.format                                                              *)

Digits == <<"0","1","2","3","4","5","6","7","8","9">>

\* template.format(*args) for templates whose fields are {0} .. {9}.
RECURSIVE Format(_, _)
Format(template, args) ==
    IF template = <<>> THEN <<>>
    ELSE IF Len(template) >= 3 /\ template[1] = "{" /\ template[3] = "}"
            /\ \E d \in 1..10 : Digits[d] = template[2]
    THEN args[CHOOSE d \in 1..10 : Digits[d] = template[2]]
         \o Format(SubSeq(template, 4, Len(template)), args)
    ELSE <<Head(template)>> \o Format(Tail(template), args)

----------------------------------------------------------------------------
(* The local file system                                                   *)

\* os.path.dirname of a normalized absolute path.
Parent(a) ==
    LET i == RFind(a, "/")
    IN  IF i <= 0 THEN <<"/">> ELSE Slice(a, 0, i)

IsDirAt(f, a) == a \in DOMAIN f /\ f[a].kind = "dir"

\* The longest name of a directory entry and the longest path, in bytes, and
\* the most symbolic links the system follows on the way of one path.
NAME_MAX == 255
PATH_MAX == 4096
MAXSYMLINKS == 40

\* U+D800 to U+DFFF, and among them U+DC80 to U+DCFF, which stand for the
\* bytes 0x80 to 0xff in a file name (the surrogateescape error handler).
Surrogate(n) == 55296 <= n /\ n <= 57343
EscapedByte(n) == 56448 <= n /\ n <= 56575

\* The bytes of the character of code point n in the encoding of file
\* names, UTF-8.
Utf8Size(n) ==
    IF n < 128 THEN 1
    ELSE IF n < 2048 THEN 2
    ELSE IF EscapedByte(n) THEN 1
    ELSE IF n < 65536 THEN 3
    ELSE 4

CharBytes(c) == IF Len(c) = 1 THEN 1 ELSE Utf8Size(Ord(c))

\* sum(sizes) for sizes from 1 to 4
SumOfSizes(sizes) ==
    Len(sizes) + Cardinality({i \in 1..Len(sizes) : sizes[i] = 2})
               + 2 * Cardinality({i \in 1..Len(sizes) : sizes[i] = 3})
               + 3 * Cardinality({i \in 1..Len(sizes) : sizes[i] = 4})

\* len(os.fsencode(t))
ByteLen(t) == SumOfSizes([i \in 1..Len(t) |-> CharBytes(t[i])])

\* Whether the character of code point n can be encoded: it is no surrogate
\* but one that stands for a byte.
EncodableOrd(n) == ~Surrogate(n) \/ EscapedByte(n)

\* Whether os.fsencode(p) succeeds.
Encodable(p) == \A i \in 1..Len(p) : Len(p[i]) = 1 \/ EncodableOrd(Ord(p[i]))

\* A path with a NUL character in it.
HasNul(p) == \E i \in 1..Len(p) : p[i] = "\\x00"

\* The byte that the character of code point n stands for when it is an
\* escaped byte, or -1.
ByteOf(n) == IF EscapedByte(n) THEN n - 56320 ELSE -1

\* The bytes that the characters of a name stand for, -1 for a character
\* that is no escaped byte.
EscapedBytes(name) ==
    [k \in 1..Len(name) |-> IF Len(name[k]) > 1 THEN ByteOf(Ord(name[k])) ELSE -1]

\* The length of the UTF-8 encoding of a character that the bytes from
\* bytes[k] on make up, or 1 when they make up none.
Utf8Len(bytes, k) ==
    LET b(i) == IF 1 <= k + i - 1 /\ k + i - 1 <= Len(bytes) THEN bytes[k + i - 1] ELSE -1
        In(x, lo, hi) == lo <= x /\ x <= hi
        cont(i) == In(b(i), 128, 191)
    IN  IF In(b(1), 194, 223) /\ cont(2) THEN 2
        ELSE IF /\ \/ b(1) = 224 /\ In(b(2), 160, 191)
                   \/ In(b(1), 225, 236) /\ cont(2)
                   \/ b(1) = 237 /\ In(b(2), 128, 159)
                   \/ In(b(1), 238, 239) /\ cont(2)
                /\ cont(3)
        THEN 3
        ELSE IF /\ \/ b(1) = 240 /\ In(b(2), 144, 191)
                   \/ In(b(1), 241, 243) /\ cont(2)
                   \/ b(1) = 244 /\ In(b(2), 128, 143)
                /\ cont(3)
                /\ cont(4)
        THEN 4
        ELSE 1

\* The code point that len bytes from bytes[k] on encode.
Utf8Code(bytes, k, len) ==
    CASE len = 2 -> (bytes[k] - 192) * 64 + (bytes[k + 1] - 128)
      [] len = 3 -> (bytes[k] - 224) * 4096 + (bytes[k + 1] - 128) * 64 + (bytes[k + 2] - 128)
      [] len = 4 -> (bytes[k] - 240) * 262144 + (bytes[k + 1] - 128) * 4096
                    + (bytes[k + 2] - 128) * 64 + (bytes[k + 3] - 128)

\* The character that len bytes from bytes[k] on encode, name[k] for one byte.
Utf8Char(name, bytes, k, len) ==
    IF len > 1 THEN <<Chr(Utf8Code(bytes, k, len))>> ELSE <<name[k]>>

\* os.fsdecode(os.fsencode(name[i - 1:j])) within name: escaped bytes that
\* make up the UTF-8 encoding of a character are that character.
RECURSIVE FsDecode(_, _, _, _)
FsDecode(name, bytes, i, j) ==
    IF i > j THEN <<>>
    ELSE IF i = j
    THEN IF \E k \in 1..3 : Utf8Len(bytes, i - k) > k THEN <<>>
         ELSE Utf8Char(name, bytes, i, Utf8Len(bytes, i))
    ELSE FsDecode(name, bytes, i, (i + j) \div 2)
         \o FsDecode(name, bytes, ((i + j) \div 2) + 1, j)

\* The name the file system keeps for a name.
FsName(name) ==
    IF \A i \in 1..Len(name) : Len(name[i]) = 1 THEN name
    ELSE FsDecode(name, EscapedBytes(name), 1, Len(name))

\* One leg of the walk the system makes along the components of a path, from
\* the directory at: every component is looked up in a directory that exists,
\* '' and '.' stay in it, '..' goes to its parent, a name of at most NAME_MAX
\* bytes goes to the entry of that name, which may not exist.  The leg ends
\* with the components (done, and ok when none failed) or at a symbolic link,
\* whose target is to be walked in its place, from the root when it is
\* absolute; no more than MAXSYMLINKS links are followed.
Leg(done, ok, at, comps, links) ==
    [done |-> done, ok |-> ok, path |-> at, comps |-> comps, links |-> links]

RECURSIVE Walk(_, _, _, _)

\* The step of the walk to the entry of a name in the directory at.
Enter(f, comps, at, links, entry) ==
    IF entry \in DOMAIN f /\ f[entry].kind = "link"
    THEN IF links = MAXSYMLINKS THEN Leg(TRUE, FALSE, at, <<>>, links)
         ELSE Leg(FALSE, TRUE, IF Head(f[entry].target) = "/" THEN <<"/">> ELSE at,
                  SplitSlash(f[entry].target) \o Tail(comps), links + 1)
    ELSE Walk(f, Tail(comps), entry, links)

Walk(f, comps, at, links) ==
    IF comps = <<>> THEN Leg(TRUE, TRUE, at, <<>>, links)
    ELSE IF ~IsDirAt(f, at) THEN Leg(TRUE, FALSE, at, <<>>, links)
    ELSE IF Head(comps) = <<>> \/ Head(comps) = <<".">> THEN Walk(f, Tail(comps), at, links)
    ELSE IF Head(comps) = <<".", ".">> THEN Walk(f, Tail(comps), Parent(at), links)
    ELSE IF Len(Head(comps)) * 4 > NAME_MAX /\ ByteLen(Head(comps)) > NAME_MAX
    THEN Leg(TRUE, FALSE, at, <<>>, links)
    ELSE Enter(f, comps, at, links, Join(at, FsName(Head(comps))))

\* The walk, leg after leg.
RECURSIVE Legs(_, _)
Legs(f, leg) == IF leg.done THEN leg ELSE Legs(f, Walk(f, leg.comps, leg.path, leg.links))

\* Where path p leads: ok when every directory on the way exists, and then
\* path is the path of the entry it names, which may not exist, free of
\* links, '.' and '..'.  The empty path, a path that cannot be encoded, a path
\* with a NUL and a path of PATH_MAX bytes or more lead nowhere.
Resolve(f, p) ==
    IF \/ p = <<>>
       \/ ~Encodable(p)
       \/ HasNul(p)
       \/ Len(p) * 4 >= PATH_MAX /\ ByteLen(p) >= PATH_MAX
    THEN Leg(TRUE, FALSE, p, <<>>, 0)
    ELSE Legs(f, Leg(FALSE, TRUE, IF Head(p) = "/" THEN <<"/">> ELSE Cwd, SplitSlash(p), 0))

\* What a path that leads to r is: "dir", "file", or "none".
KindAt(f, r) == IF r.ok /\ r.path \in DOMAIN f THEN f[r.path].kind ELSE "none"

\* os.path.isdir(p)
IsDir(f, p) == KindAt(f, Resolve(f, p)) = "dir"

\* os.path.isfile(p)
IsFile(f, p) == KindAt(f, Resolve(f, p)) = "file"

\* os.path.getsize(p)
Getsize(f, p) == f[Resolve(f, p).path].size

\* Whether a file can be opened for writing where r leads: the directories
\* on the way exist and it is a file or nothing yet, in a directory.
Writable(f, r) ==
    /\ r.ok
    /\ r.path \in DOMAIN f => f[r.path].kind = "file"
    /\ IsDirAt(f, Parent(r.path))

\* Whether open(p, 'wb') succeeds.
CanOpenForWrite(f, p) == Writable(f, Resolve(f, p))

\* What open(p, 'wb') raises when it fails: UnicodeEncodeError for a path
\* that cannot be encoded, ValueError for a NUL in it, OSError (IOError) when
\* the system refuses.
OpenError(p) ==
    IF ~Encodable(p) THEN "UnicodeEncodeError"
    ELSE IF HasNul(p) THEN "ValueError"
    ELSE "IOError"

\* The file system with a file of that content at a.
WithFile(f, a, content) ==
    [b \in DOMAIN f \cup {a} |->
        IF b = a THEN [kind |-> "file", size |-> content.size, data |-> content.data]
        ELSE f[b]]

\* with open(p, 'wb') as fh: fh.write(content)
WriteFile(f, p, content) == WithFile(f, Resolve(f, p).path, content)

\* The content of a file.
Content(file) == [size |-> file.size, data |-> file.data]

\* with open(p, 'rb') as fh: fh.read()
ReadFile(f, p) == Content(f[Resolve(f, p).path])

----------------------------------------------------------------------------
(* Program constants                                                       *)

\* The maximum size of a file that can be published in a single request.
FILESIZE_LIMIT == 1024 * 1024 * 64

ALLOWED_FILE_EXTENSIONS == << <<"t","d","s">>, <<"t","d","s","x">>, <<"t","d","e">> >>

\* x in list
InList(x, list) == \E i \in 1..Len(list) : list[i] = x

\* Server.PublishMode: the attributes the class declares, by name.
PublishMode ==
    [Append    |-> <<"A","p","p","e","n","d">>,
     Overwrite |-> <<"O","v","e","r","w","r","i","t","e">>,
     CreateNew |-> <<"C","r","e","a","t","e","N","e","w">>]

\* The attributes every Python 3 class has, its own and those of type.
ClassAttributes ==
    {"__annotations__", "__base__", "__bases__", "__basicsize__", "__call__",
     "__class__", "__delattr__", "__dict__", "__dictoffset__", "__dir__", "__doc__",
     "__eq__", "__flags__", "__format__", "__ge__", "__getattribute__",
     "__getstate__", "__gt__", "__hash__", "__init__", "__init_subclass__",
     "__instancecheck__", "__itemsize__", "__le__", "__lt__", "__module__",
     "__mro__", "__name__", "__ne__", "__new__", "__or__", "__prepare__",
     "__qualname__", "__reduce__", "__reduce_ex__", "__repr__", "__ror__",
     "__setattr__", "__sizeof__", "__str__", "__subclasscheck__", "__subclasses__",
     "__subclasshook__", "__text_signature__", "__weakref__", "__weakrefoffset__",
     "mro"}

\* hasattr(self.parent_srv.PublishMode, mode)
HasAttr(class, name) == Str(name) \in (DOMAIN class) \cup ClassAttributes

----------------------------------------------------------------------------
(* Bounds and inputs                                                       *)

\* The server has sites site-1 .. site-NumSites to sign in to.
NumSites == 2

\* Local data files have the sizes FILESIZE_LIMIT - SizeSlack .. FILESIZE_LIMIT + SizeSlack.
SizeSlack == 1

SiteId(i) == <<"s","i","t","e","-">> \o <<Digits[i + 1]>>
Sites == {SiteId(i) : i \in 1..NumSites}

ServerBaseurl == <<"h","t","t","p",":","/","/","s","r","v","/","a","p","i">>

\* Data file k is d<k>.<ext> in the working directory, the extensions taken in turn.
DataFileName(k) ==
    <<"d", Digits[k + 1], ".">> \o ALLOWED_FILE_EXTENSIONS[(k % 3) + 1]
DataFileSize(k) == FILESIZE_LIMIT - SizeSlack + k
DataFileIndexes == 0..(2 * SizeSlack)

NotesTxt == <<"n","o","t","e","s",".","t","x","t">>
DotTds   == <<".","t","d","s">>
OutDir   == <<"o","u","t">>
CopyTds  == <<"c","o","p","y",".","t","d","s">>
UpDir    == <<"/","u","p">>
LnkUp    == <<"l","n","k">>
Loop     == <<"l","o","o","p">>

\* The working directory /w holds the data files, notes.txt, .tds, the
\* directory out, the symbolic link lnk to the directory /up, and the symbolic
\* link loop to itself.
InitialFs ==
    LET dirs  == {<<"/">>, Cwd, Join(Cwd, OutDir), UpDir}
        data  == {Join(Cwd, DataFileName(k)) : k \in DataFileIndexes}
        other == {Join(Cwd, NotesTxt), Join(Cwd, DotTds)}
        links == {Join(Cwd, LnkUp), Join(Cwd, Loop)}
        index(a) == CHOOSE k \in DataFileIndexes : Join(Cwd, DataFileName(k)) = a
    IN  [a \in dirs \cup data \cup other \cup links |->
            IF a \in dirs THEN [kind |-> "dir", size |-> 0, data |-> ""]
            ELSE IF a \in data
            THEN [kind |-> "file", size |-> DataFileSize(index(a)), data |-> "extract"]
            ELSE IF a \in other THEN [kind |-> "file", size |-> 10, data |-> "text"]
            ELSE [kind |-> "link", target |-> IF a = Join(Cwd, LnkUp) THEN UpDir ELSE Loop]]

\* file_path arguments of publish: the data files, and files that are not
\* there or cannot be published
PublishPaths == {DataFileName(k) : k \in DataFileIndexes}

OtherPublishPaths ==
    {NotesTxt, DotTds, OutDir, CopyTds,
     <<"m","i","s","s","i","n","g",".","t","d","s">>,
     <<"m","i","s","s","i","n","g","/",".",".","/">> \o DataFileName(0),
     OutDir \o <<"/",".",".","/">> \o DataFileName(0),
     LnkUp \o <<"/",".",".","/">> \o DataFileName(0)}

\* mode arguments of publish
Modes ==
    {None, <<>>, PublishMode.Append, PublishMode.Overwrite, PublishMode.CreateNew,
     <<"R","e","p","l","a","c","e">>, <<"_","_","m","o","d","u","l","e","_","_">>}

\* datasource_id arguments
DatasourceIds == {None, <<>>, <<"d","s","1">>}

\* filepath arguments of download: none, a directory, a file; and paths that
\* go through '..', a missing directory, a symbolic link, or that the system
\* does not take
DownloadPaths == {None, OutDir, CopyTds}

OtherDownloadPaths ==
    {<<>>, <<"n","o","d","i","r","/","x",".","t","d","s">>,
     NotesTxt \o <<"/",".",".">>, OutDir \o <<"/",".",".","/">> \o CopyTds,
     LnkUp \o <<"/",".",".","/">> \o CopyTds, Loop,
     <<"a", "\\x00", "b">>, <<"\\ud800">>,
     [i \in 1..((NAME_MAX + 1) \div 4) |-> "\\U0001f600"]}

\* A datasource item as the caller holds it.
Item(id, name) ==
    [id |-> id, name |-> name, project_id |-> <<"p","1">>,
     updated_at |-> None, connections |-> None]

\* The items of the callers: one with an id and a name, and those that lack
\* the id or the name, as None or as ''.
Items ==
    {Item(id, <<"S","a","l","e","s">>) : id \in DatasourceIds}
        \cup {Item(<<"d","s","1">>, name) : name \in {None, <<>>}}

\* What the server sends back.  A response that is not ok makes the request
\* method raise ServerResponseError.
Blob == [size |-> 4, data |-> "download"]

Response(ok, disposition) ==
    [ok |-> ok, disposition |-> disposition, content |-> Blob,
     project_id |-> <<"p","2">>,
     updated_at |-> <<"2","0","1","6","-","0","8","-","1","8">>,
     connections |-> <<"conn-1">>]

Responses == {Response(ok, None) : ok \in BOOLEAN}

NoResponse == [Response(FALSE, None) EXCEPT !.content = [size |-> 0, data |-> ""]]

WorldDisposition ==
    <<"n","a","m","e","=","\"","t","a","b","l","e","a","u","_","d","a","t","a","s","o","u","r","c","e","\"",
      ";"," ","f","i","l","e","n","a","m","e","=","\"",".",".","/","u","p","/","W","o","r","l","d",".","t","d","s","x","\"">>

\* The same file named without quotes, after a form feed, the parameter in
\* capitals.
FormFeedDisposition ==
    <<"a","t","t","a","c","h","m","e","n","t",";"," ","F","I","L","E","N","A","M","E","=",
      "\f","W","o","r","l","d",".","t","d","s","x">>

DownloadResponses ==
    {Response(FALSE, None), Response(TRUE, None),
     Response(TRUE, <<"a","t","t","a","c","h","m","e","n","t">>),
     Response(TRUE, WorldDisposition), Response(TRUE, FormFeedDisposition)}

\* The calls of publish: every mode with the data files, a mode of
\* PublishMode and no mode with the other paths.
PublishCalls ==
    (PublishPaths \X Modes) \cup (OtherPublishPaths \X {PublishMode.CreateNew, <<>>})

\* The calls of download with the response to their GET: every id and
\* response with the first paths, the named file for an id with the others.
DownloadCalls ==
    (DatasourceIds \X DownloadPaths \X DownloadResponses)
        \cup ({<<"d","s","1">>} \X OtherDownloadPaths \X {Response(TRUE, WorldDisposition)})

\* How Fileuploads.upload_chunks can end: with the id of the upload session,
\* or, None here, by raising.
UploadOutcomes == {<<"u","p","-","1">>, None}

----------------------------------------------------------------------------
(* The record of a call                                                    *)

NoBody == [builder |-> "none", item |-> Item(None, None), filename |-> None,
           contents |-> [size |-> 0, data |-> ""]]

\* One thing a call did: an HTTP request through the endpoint's own request
\* methods (kind GET, PUT, DELETE or POST, target the url), an upload session
\* (kind upload_chunks, target the file, session the id it returned or None
\* when it raised), or a file written (kind write, target the path).  A
\* request carries the response it got.
Event(kind, target, body) ==
    [kind |-> kind, target |-> target, body |-> body, session |-> None,
     response |-> NoResponse]

\* Fileuploads.upload_chunks(self.parent_srv, file_path): the file sent up in
\* an upload session, and the session id it returned (None when it raised).
upload_chunks(file_path, session) ==
    [Event("upload_chunks", file_path, NoBody) EXCEPT !.session = session]

\* self.get_request(url), put_request, delete_request, post_request: the
\* request sent and the response it got.
Request(kind, url, body, resp) == [Event(kind, url, body) EXCEPT !.response = resp]

NoResult == [value |-> "none", path |-> None, ref |-> 0]

Call(op, id, path, mode, events, outcome, result) ==
    [op |-> op, datasource_id |-> id, path |-> path, mode |-> mode,
     item |-> heap[1], events |-> events, outcome |-> outcome, result |-> result]

\* No call has been made on the item yet.
NoCall(item) ==
    [op |-> "none", datasource_id |-> None, path |-> None, mode |-> None,
     item |-> item, events |-> <<>>, outcome |-> "none", result |-> NoResult]

----------------------------------------------------------------------------
(* Datasources                                                             *)

\* Datasources.__init__
NewEndpoint ==
    [baseurl |-> <<"{","0","}","/","s","i","t","e","s","/","{","1","}","/",
                   "d","a","t","a","s","o","u","r","c","e","s">>,
     parent_srv |-> "parent_srv"]

Init ==
    /\ endpoint = NewEndpoint
    /\ server = [baseurl |-> ServerBaseurl, site_id |-> SiteId(1)]
    /\ fs = InitialFs
    /\ heap \in {<<it>> : it \in Items}
    /\ call = NoCall(heap[1])

\* The url built once, for the site of the session the endpoint was made in.
construct_url_first_site == Format(endpoint.baseurl, <<server.baseurl, SiteId(1)>>)

\* Datasources._construct_url
construct_url == Format(endpoint.baseurl, <<server.baseurl, server.site_id>>)

\* The calls are synchronous and sequential: one is made when the caller has
\* taken the outcome of the one before.
Idle == call.op = "none"

\* get with a request for the items and another for the pagination.
get_twice ==
    /\ Idle
    /\ \E resp \in Responses :
        LET url == construct_url
            sent == <<Request("GET", url, NoBody, resp), Request("GET", url, NoBody, resp)>>
        IN  /\ call' = IF resp.ok
                       THEN Call("get", None, None, None, sent, "returned",
                                 [NoResult EXCEPT !.value = "from_response"])
                       ELSE Call("get", None, None, None, sent, "ServerResponseError", NoResult)
            /\ heap' = heap
            /\ UNCHANGED <<endpoint, server, fs>>

\* Datasources.get
get ==
    /\ Idle
    /\ \E resp \in Responses :
        LET url == construct_url
            sent == <<Request("GET", url, NoBody, resp)>>
        IN  /\ call' = IF resp.ok
                       THEN Call("get", None, None, None, sent, "returned",
                                 [NoResult EXCEPT !.value = "from_response"])
                       ELSE Call("get", None, None, None, sent, "ServerResponseError", NoResult)
            /\ heap' = heap
            /\ UNCHANGED <<endpoint, server, fs>>

\* Datasources.get_by_id
get_by_id ==
    /\ Idle
    /\ \E datasource_id \in DatasourceIds :
        /\ IF Falsy(datasource_id)
           THEN call' = Call("get_by_id", datasource_id, None, None, <<>>, "ValueError", NoResult)
           ELSE \E resp \in Responses :
                LET url == Format(<<"{","0","}","/","{","1","}">>,
                                  <<construct_url, datasource_id>>)
                    sent == <<Request("GET", url, NoBody, resp)>>
                IN  call' = IF resp.ok
                            THEN Call("get_by_id", datasource_id, None, None, sent, "returned",
                                      [NoResult EXCEPT !.value = "from_response"])
                            ELSE Call("get_by_id", datasource_id, None, None, sent,
                                      "ServerResponseError", NoResult)
        /\ heap' = heap
        /\ UNCHANGED <<endpoint, server, fs>>

\* DatasourceItem._set_connections
set_connections(item, connections) == [item EXCEPT !.connections = connections]

\* Datasources.populate_connections
populate_connections ==
    LET datasource_item == heap[1]
    IN  /\ Idle
        /\ IF Falsy(datasource_item.id)
           THEN /\ call' = Call("populate_connections", None, None, None, <<>>,
                                "MissingRequiredFieldError", NoResult)
                /\ heap' = heap
           ELSE \E resp \in Responses :
                LET url == Format(<<"{","0","}","/","{","1","}","/",
                                        "c","o","n","n","e","c","t","i","o","n","s">>,
                                  <<construct_url, datasource_item.id>>)
                    sent == <<Request("GET", url, NoBody, resp)>>
                IN  IF resp.ok
                    THEN /\ call' = Call("populate_connections", None, None, None, sent,
                                         "returned", NoResult)
                         /\ heap' = <<set_connections(datasource_item, resp.connections)>>
                    ELSE /\ call' = Call("populate_connections", None, None, None, sent,
                                         "ServerResponseError", NoResult)
                         /\ heap' = heap
        /\ UNCHANGED <<endpoint, server, fs>>

\* Datasources.delete
delete ==
    /\ Idle
    /\ \E datasource_id \in DatasourceIds :
        /\ IF Falsy(datasource_id)
           THEN call' = Call("delete", datasource_id, None, None, <<>>, "ValueError", NoResult)
           ELSE \E resp \in Responses :
                LET url == Format(<<"{","0","}","/","{","1","}">>,
                                  <<construct_url, datasource_id>>)
                    sent == <<Request("DELETE", url, NoBody, resp)>>
                IN  call' = Call("delete", datasource_id, None, None, sent,
                                 IF resp.ok THEN "returned" ELSE "ServerResponseError",
                                 NoResult)
        /\ heap' = heap
        /\ UNCHANGED <<endpoint, server, fs>>

\* download, lines 74-77: where the content goes.
DownloadTarget(f, filepath, filename) ==
    IF filepath = None THEN filename
    ELSE IF IsDir(f, filepath) THEN Join(filepath, filename)
    ELSE filepath

\* download, line 73: the file name the server names, without directories.
DownloadFilename(params) == Basename(params[<<"f","i","l","e","n","a","m","e">>])

\* Datasources.download
download ==
    /\ Idle
    /\ \E made \in DownloadCalls :
        LET datasource_id == made[1]
            filepath == made[2]
            resp == made[3]
            Ended(events, outcome, result) ==
                /\ call' = Call("download", datasource_id, filepath, None,
                                events, outcome, result)
                /\ fs' = fs
        IN  /\ IF Falsy(datasource_id)
               THEN Ended(<<>>, "ValueError", NoResult)
               ELSE LET url == Format(<<"{","0","}","/","{","1","}","/",
                                            "c","o","n","t","e","n","t">>,
                                      <<construct_url, datasource_id>>)
                        sent == <<Request("GET", url, NoBody, resp)>>
                    IN  IF ~resp.ok THEN Ended(sent, "ServerResponseError", NoResult)
                        ELSE IF resp.disposition = None THEN Ended(sent, "KeyError", NoResult)
                        ELSE LET params == ParseHeader(resp.disposition)
                             IN  IF <<"f","i","l","e","n","a","m","e">> \notin DOMAIN params
                                 THEN Ended(sent, "KeyError", NoResult)
                                 ELSE LET filename == DownloadFilename(params)
                                          target == DownloadTarget(fs, filepath, filename)
                                          written == Event("write", target,
                                                           [NoBody EXCEPT !.builder = "content",
                                                                          !.contents = resp.content])
                                      IN  IF ~CanOpenForWrite(fs, target)
                                          THEN Ended(sent, OpenError(target), NoResult)
                                          ELSE /\ fs' = WriteFile(fs, target, resp.content)
                                               /\ call' = Call("download", datasource_id, filepath,
                                                               None, Append(sent, written), "returned",
                                                               [NoResult EXCEPT !.value = "path",
                                                                                !.path = Abspath(target)])
            /\ heap' = heap
            /\ UNCHANGED <<endpoint, server>>

\* A second name for the same object instead of a copy.
copy_alias(h, ref) == [heap |-> h, ref |-> ref]

\* copy.copy(h[ref]): a new object with the same fields; the heap with it, and its reference.
copy(h, ref) == [heap |-> Append(h, h[ref]), ref |-> Len(h) + 1]

\* DatasourceItem._parse_common_tags: sets the fields the response carries on
\* h[ref] and returns h[ref] itself.
parse_common_tags(h, ref, resp) ==
    [heap |-> [h EXCEPT ![ref].project_id = resp.project_id,
                        ![ref].updated_at = resp.updated_at],
     ref |-> ref]

\* Datasources.update
update ==
    LET datasource_item == heap[1]
    IN  /\ Idle
        /\ IF Falsy(datasource_item.id)
           THEN /\ call' = Call("update", None, None, None, <<>>,
                                "MissingRequiredFieldError", NoResult)
                /\ heap' = heap
           ELSE \E resp \in Responses :
                LET url == Format(<<"{","0","}","/","{","1","}">>,
                                  <<construct_url, datasource_item.id>>)
                    update_req == [NoBody EXCEPT !.builder = "update_req",
                                                 !.item = datasource_item]
                    sent == <<Request("PUT", url, update_req, resp)>>
                    updated_datasource == copy(heap, 1)
                    parsed == parse_common_tags(updated_datasource.heap,
                                                updated_datasource.ref, resp)
                IN  IF resp.ok
                    THEN /\ call' = Call("update", None, None, None, sent, "returned",
                                         [NoResult EXCEPT !.value = "ref", !.ref = parsed.ref])
                         /\ heap' = parsed.heap
                    ELSE /\ call' = Call("update", None, None, None, sent,
                                         "ServerResponseError", NoResult)
                         /\ heap' = heap
        /\ UNCHANGED <<endpoint, server, fs>>

\* publish, lines 105-106: the extension of the file, without its dot.
FileExtension(file_path) ==
    LET ext == Splitext(Basename(file_path))[2]
    IN  Slice(ext, 1, Len(ext))

\* publish, lines 109-110: an item without a name is named after the file.
NameFromFile(item, file_path) ==
    IF Falsy(item.name)
    THEN [item EXCEPT !.name = Splitext(Basename(file_path))[1]]
    ELSE item

\* The url with the mode as the caller spelled it.
PublishUrlModeAsGiven(file_extension, mode) ==
    LET url == Format(<<"{","0","}","?","d","a","t","a","s","o","u","r","c","e",
                        "T","y","p","e","=","{","1","}">>,
                      <<construct_url, file_extension>>)
    IN  IF mode = PublishMode.Overwrite \/ mode = PublishMode.Append
        THEN url \o Format(<<"&","{","0","}","=","t","r","u","e">>, <<mode>>)
        ELSE url

\* publish, lines 116-118: the url with the file type and the mode.
PublishUrl(file_extension, mode) ==
    LET url == Format(<<"{","0","}","?","d","a","t","a","s","o","u","r","c","e",
                        "T","y","p","e","=","{","1","}">>,
                      <<construct_url, file_extension>>)
    IN  IF mode = PublishMode.Overwrite \/ mode = PublishMode.Append
        THEN url \o Format(<<"&","{","0","}","=","t","r","u","e">>, <<Lower(mode)>>)
        ELSE url

\* publish, line 121: whether the file goes up in chunks.
ChunkingRequired(size) == size >= FILESIZE_LIMIT

\* The url of a chunked publish left as it was.
ChunkedUrlWithoutId(url, upload_session_id) == url

\* publish, line 124: the url of a chunked publish names the upload session.
ChunkedUrl(url, upload_session_id) ==
    Format(<<"{","0","}","&","u","p","l","o","a","d","S","e","s","s","i","o","n",
             "I","d","=","{","1","}">>,
           <<url, upload_session_id>>)

\* The checks with the mode looked at before the file.
ValidationModeFirst(f, file_path, mode) ==
    IF Falsy(mode) \/ ~HasAttr(PublishMode, mode) THEN "ValueError: mode"
    ELSE IF ~IsFile(f, file_path) THEN "IOError: no such file"
    ELSE IF ~InList(FileExtension(file_path), ALLOWED_FILE_EXTENSIONS)
    THEN "ValueError: extension"
    ELSE "valid"

\* publish, lines 98-103 and 111-113: the checks in the order they are made.
\* Between the second and the third the item is named (lines 109-110).
Validation(f, file_path, mode) ==
    IF ~IsFile(f, file_path) THEN "IOError: no such file"
    ELSE IF Falsy(mode) \/ ~HasAttr(PublishMode, mode) THEN "ValueError: mode"
    ELSE IF ~InList(FileExtension(file_path), ALLOWED_FILE_EXTENSIONS)
    THEN "ValueError: extension"
    ELSE "valid"

\* Datasources.publish
publish ==
    /\ Idle
    /\ \E made \in PublishCalls :
        LET file_path == made[1]
            mode == made[2]
            datasource_item == heap[1]
            Raised(events, outcome, item) ==
                /\ call' = Call("publish", None, file_path, mode, events, outcome, NoResult)
                /\ heap' = <<item>>
            filename == Basename(file_path)
            file_extension == FileExtension(file_path)
            named == NameFromFile(datasource_item, file_path)
            url == PublishUrl(file_extension, mode)
            checked == Validation(fs, file_path, mode)
            Post(before, post_url, body) ==
                \E resp \in Responses :
                    LET events == Append(before, Request("POST", post_url, body, resp))
                    IN  IF resp.ok
                        THEN /\ call' = Call("publish", None, file_path, mode, events,
                                             "returned",
                                             [NoResult EXCEPT !.value = "from_response"])
                             /\ heap' = <<named>>
                        ELSE Raised(events, "ServerResponseError", named)
        IN  /\ IF checked = "IOError: no such file"
               THEN Raised(<<>>, "IOError", datasource_item)
               ELSE IF checked = "ValueError: mode"
               THEN Raised(<<>>, "ValueError", datasource_item)
               ELSE IF checked = "ValueError: extension"
               THEN Raised(<<>>, "ValueError", named)
               ELSE IF ChunkingRequired(Getsize(fs, file_path))
               THEN \E upload_session_id \in UploadOutcomes :
                        IF upload_session_id = None
                        THEN Raised(<<upload_chunks(file_path, None)>>,
                                    "ServerResponseError", named)
                        ELSE Post(<<upload_chunks(file_path, upload_session_id)>>,
                                  ChunkedUrl(url, upload_session_id),
                                  [NoBody EXCEPT !.builder = "publish_req_chunked",
                                                 !.item = named])
               ELSE Post(<<>>, url,
                         [NoBody EXCEPT !.builder = "publish_req", !.item = named,
                                        !.filename = filename,
                                        !.contents = ReadFile(fs, file_path)])
            /\ UNCHANGED <<endpoint, server, fs>>

----------------------------------------------------------------------------
(* The caller and the session                                              *)

\* The session moves to another site: parent_srv.site_id changes.
SwitchSite ==
    /\ Idle
    /\ \E site \in Sites \ {server.site_id} :
        /\ server' = [server EXCEPT !.site_id = site]
        /\ call' = NoCall(heap[1])
        /\ UNCHANGED <<endpoint, fs, heap>>

\* The caller takes another item in hand.
NewItem ==
    /\ Idle
    /\ \E it \in Items \ {heap[1]} :
        /\ heap' = <<it>>
        /\ call' = NoCall(it)
        /\ UNCHANGED <<endpoint, server, fs>>

\* The caller takes the outcome of the call; a returned copy is let go.
Return ==
    /\ ~Idle
    /\ heap' = <<heap[1]>>
    /\ call' = NoCall(heap[1])
    /\ UNCHANGED <<endpoint, server, fs>>

Next ==
    \/ get
    \/ get_by_id
    \/ populate_connections
    \/ delete
    \/ download
    \/ update
    \/ publish
    \/ SwitchSite
    \/ NewItem
    \/ Return

Spec == Init /\ [][Next]_vars

----------------------------------------------------------------------------
(* Properties                                                              *)

HttpKinds == {"GET", "PUT", "DELETE", "POST"}

\* What the last call did, by kind.
Requests == SelectSeq(call.events, LAMBDA e : e.kind \in HttpKinds)
Uploads  == SelectSeq(call.events, LAMBDA e : e.kind = "upload_chunks")

\* Whether text t holds pattern p somewhere, starts with it, ends with it.
Contains(t, p) == \E i \in 1..(Len(t) - Len(p) + 1) : SubSeq(t, i, i + Len(p) - 1) = p
StartsWith(t, p) == Len(t) >= Len(p) /\ SubSeq(t, 1, Len(p)) = p
EndsWith(t, p) == Len(t) >= Len(p) /\ SubSeq(t, Len(t) - Len(p) + 1, Len(t)) = p

Missing(v) == v \in {None, <<>>}

\* The id of the last call is there, its file exists, its mode is one of
\* PublishMode's and its file is of a type that can be published.
FileThere == IsFile(fs, call.path)
ModeThere ==
    ~Missing(call.mode)
    /\ Str(call.mode) \in {"Append", "Overwrite", "CreateNew"} \cup ClassAttributes
TypeAllowed == Str(FileExtension(call.path)) \in {"tds", "tdsx", "tde"}

\* The last call passed the checks of its operation.
Validated ==
    CASE call.op = "get" -> TRUE
      [] call.op \in {"get_by_id", "delete", "download"} -> ~Missing(call.datasource_id)
      [] call.op \in {"update", "populate_connections"} -> ~Missing(call.item.id)
      [] call.op = "publish" -> FileThere /\ ModeThere /\ TypeAllowed
      [] OTHER -> FALSE

CrudOps == {"get", "get_by_id", "update", "delete", "download", "publish"}

KindOf(op) ==
    CASE op \in {"get", "get_by_id", "download"} -> "GET"
      [] op = "update" -> "PUT"
      [] op = "delete" -> "DELETE"
      [] op = "publish" -> "POST"

\* C1 as stated: every call of get, get_by_id, update, delete, download or
\* publish that passes validation issues exactly one HTTP request, of the kind
\* of its operation.
C1_ExactlyOneHttpCall ==
    (call.op \in CrudOps /\ Validated) =>
        /\ Len(Requests) = 1
        /\ Requests[1].kind = KindOf(call.op)

\* C1 amended: a validated call issues exactly one request through the
\* endpoint's own request methods, of the kind of its operation, and it is the
\* last thing on the network; only a publish of a file that needs chunking runs
\* an upload session first, and when that session raises the publish issues no
\* request at all.
C1_OneOwnRequestUnlessUploadFails ==
    (call.op \in CrudOps /\ Validated) =>
        IF \E i \in 1..Len(Uploads) : Uploads[i].session = None
        THEN Requests = <<>> /\ call.op = "publish" /\ call.outcome # "returned"
        ELSE /\ Len(Requests) = 1
             /\ Requests[1].kind = KindOf(call.op)
             /\ Len(Uploads) <= 1
             /\ Uploads # <<>> =>
                    /\ call.op = "publish"
                    /\ Getsize(fs, call.path) >= FILESIZE_LIMIT
                    /\ call.events = Uploads \o Requests

\* A chunked publish that went through: one upload session, then one POST.
C1_Witness ==
    /\ call.op = "publish"
    /\ call.outcome = "returned"
    /\ Len(Uploads) = 1
    /\ Len(Requests) = 1

\* C2: a call without an identifier raises before anything is sent or written:
\* get_by_id, delete and download raise ValueError for a missing
\* datasource_id, update and populate_connections raise
\* MissingRequiredFieldError for an item whose id is missing, and the item is
\* as it was, its connections not set.
C2_MissingIdRaisesBeforeAnyRequest ==
    /\ (call.op \in {"get_by_id", "delete", "download"} /\ Missing(call.datasource_id)) =>
            /\ call.outcome = "ValueError"
            /\ call.events = <<>>
            /\ heap = <<call.item>>
    /\ (call.op \in {"update", "populate_connections"} /\ Missing(call.item.id)) =>
            /\ call.outcome = "MissingRequiredFieldError"
            /\ call.events = <<>>
            /\ heap = <<call.item>>
            /\ heap[1].connections = None

\* populate_connections on an item whose id is the empty string was refused.
C2_Witness ==
    /\ call.op = "populate_connections"
    /\ call.item.id = <<>>
    /\ call.outcome = "MissingRequiredFieldError"

\* C3: publish checks the file first (IOError), then the mode (ValueError),
\* then the file type (ValueError), and a rejected publish starts no upload
\* session and issues no POST.
C3_PublishValidationOrder ==
    call.op = "publish" =>
        /\ ~FileThere => call.outcome = "IOError" /\ call.events = <<>>
        /\ (FileThere /\ ~ModeThere) => call.outcome = "ValueError" /\ call.events = <<>>
        /\ (FileThere /\ ModeThere /\ ~TypeAllowed) =>
                call.outcome = "ValueError" /\ call.events = <<>>
        /\ (FileThere /\ ModeThere /\ TypeAllowed) => call.events # <<>>

\* A publish of a missing file with an invalid mode ended in IOError.
C3_Witness ==
    /\ call.op = "publish"
    /\ ~FileThere
    /\ ~ModeThere
    /\ call.outcome = "IOError"

\* C4 as stated: a validated publish sends a file of at most 64MB, a file of
\* exactly 64MB included, in a single request (publish_req with the contents
\* of the file, no upload session), and uses the chunked method (upload_chunks
\* and publish_req_chunked) exactly when the file is over 64MB.
C4_SingleRequestUpTo64MB ==
    (call.op = "publish" /\ Validated) =>
        LET size == Getsize(fs, call.path)
        IN  /\ (Uploads # <<>>) <=> (size > 1024 * 1024 * 64)
            /\ \A i \in 1..Len(Requests) :
                  Requests[i].body.builder =
                      IF size > 1024 * 1024 * 64 THEN "publish_req_chunked" ELSE "publish_req"
            /\ (size <= 1024 * 1024 * 64 /\ Requests # <<>>) =>
                  Requests[1].body.contents = ReadFile(fs, call.path)

\* C5: in a chunked publish the upload session comes first and has returned
\* its id when the POST is issued, the url of the POST ends with that id as
\* uploadSessionId, and there is no POST when the upload raised; a publish
\* that is not chunked has no upload session and no uploadSessionId in its url.
C5_UploadBeforePost ==
    (call.op = "publish" /\ Validated) =>
        IF Getsize(fs, call.path) >= FILESIZE_LIMIT
        THEN /\ Len(Uploads) = 1
             /\ call.events[1].kind = "upload_chunks"
             /\ call.events[1].target = call.path
             /\ IF call.events[1].session = None
                THEN Len(call.events) = 1 /\ call.outcome # "returned"
                ELSE /\ Len(call.events) = 2
                     /\ call.events[2].kind = "POST"
                     /\ EndsWith(call.events[2].target,
                                 <<"&","u","p","l","o","a","d","S","e","s","s","i","o","n","I","d","=">>
                                     \o call.events[1].session)
        ELSE /\ Uploads = <<>>
             /\ Len(call.events) = 1
             /\ call.events[1].kind = "POST"
             /\ ~Contains(call.events[1].target,
                          <<"u","p","l","o","a","d","S","e","s","s","i","o","n","I","d">>)

\* A chunked publish whose upload returned an id and whose POST followed.
C5_Witness ==
    /\ call.op = "publish"
    /\ Len(call.events) = 2
    /\ call.events[1].kind = "upload_chunks"
    /\ call.events[1].session # None
    /\ call.events[2].kind = "POST"

\* The mode parameter of a publish url.
ModeParameter ==
    IF Str(call.mode) = "Overwrite" THEN "&overwrite=true"
    ELSE IF Str(call.mode) = "Append" THEN "&append=true"
    ELSE ""

\* The url C6 names for the last publish.
ExpectedPublishUrl ==
    Str(server.baseurl) \o "/sites/" \o Str(server.site_id)
        \o "/datasources?datasourceType=" \o Str(FileExtension(call.path)) \o ModeParameter

\* C6 as stated: the url of the POST of a validated publish is
\* <baseurl>/sites/<site_id>/datasources?datasourceType=<ext>, with <ext> one of
\* tds, tdsx, tde, followed by &overwrite=true exactly for mode Overwrite, by
\* &append=true exactly for mode Append, and by neither otherwise; it never
\* holds both parameters.
C6_PublishUrl ==
    (call.op = "publish" /\ Validated) =>
        \A i \in 1..Len(Requests) :
            /\ Str(FileExtension(call.path)) \in {"tds", "tdsx", "tde"}
            /\ Str(Requests[i].target) = ExpectedPublishUrl
            /\ ~(/\ Contains(Requests[i].target, <<"&","o","v","e","r","w","r","i","t","e","=">>)
                 /\ Contains(Requests[i].target, <<"&","a","p","p","e","n","d","=">>))

\* C6 amended: the url of the POST of a validated publish is that url, and
\* when the publish is chunked (the file has FILESIZE_LIMIT bytes or more) it
\* is followed by &uploadSessionId=<id>, the id upload_chunks returned; it
\* never holds both mode parameters.
C6_PublishUrlThenSession ==
    (call.op = "publish" /\ Validated) =>
        \A i \in 1..Len(Requests) :
            /\ Str(FileExtension(call.path)) \in {"tds", "tdsx", "tde"}
            /\ Str(Requests[i].target) =
                  IF Getsize(fs, call.path) >= 1024 * 1024 * 64
                  THEN ExpectedPublishUrl \o "&uploadSessionId=" \o Str(Uploads[1].session)
                  ELSE ExpectedPublishUrl
            /\ ~(/\ Contains(Requests[i].target, <<"&","o","v","e","r","w","r","i","t","e","=">>)
                 /\ Contains(Requests[i].target, <<"&","a","p","p","e","n","d","=">>))

\* A chunked publish with mode Overwrite that issued its POST.
C6_Witness ==
    /\ call.op = "publish"
    /\ call.mode = <<"O","v","e","r","w","r","i","t","e">>
    /\ Uploads # <<>>
    /\ Requests # <<>>

\* The file the server names in every response that names one.
World == <<"W","o","r","l","d",".","t","d","s","x">>

\* C7 as stated: a download that returns has sent its GET and then written
\* the content of the response to exactly one file, every other entry of the
\* file system being as it was, and returns the absolute path of that file.
\* The file is the base name of the server's file name in the working
\* directory when filepath is None, that base name inside filepath when
\* filepath is an existing directory, and filepath itself otherwise.  A
\* download that raises writes nothing.
C7_DownloadWritesOneFile ==
    [][(Idle /\ call'.op = "download") =>
        IF call'.outcome = "returned"
        THEN LET target == IF call'.path = None THEN World
                           ELSE IF IsDir(fs, call'.path) THEN Join(call'.path, World)
                           ELSE call'.path
                 file == Resolve(fs, target).path
             IN  /\ Len(call'.events) = 2
                 /\ call'.events[1].kind = "GET"
                 /\ call'.events[1].response.ok
                 /\ call'.events[2].kind = "write"
                 /\ call'.events[2].target = target
                 /\ call'.events[2].body.contents = call'.events[1].response.content
                 /\ DOMAIN fs' = DOMAIN fs \cup {file}
                 /\ \A a \in DOMAIN fs : a # file => fs'[a] = fs[a]
                 /\ fs'[file] =
                        [kind |-> "file", size |-> call'.events[1].response.content.size,
                         data |-> call'.events[1].response.content.data]
                 /\ Head(call'.result.path) = "/"
                 /\ Resolve(fs', call'.result.path).ok
                 /\ Resolve(fs', call'.result.path).path = file
        ELSE /\ fs' = fs
             /\ \A i \in 1..Len(call'.events) : call'.events[i].kind # "write"
    ]_vars

\* C8 as stated: a publish rejected by validation (IOError, ValueError) leaves
\* the item as it was, its name included; a publish that goes through names an
\* item without a name after the file, without its extension, before the
\* request is built, and leaves the name of an item that has one.
C8_RejectedPublishLeavesItem ==
    call.op = "publish" =>
        /\ (call.outcome \in {"IOError", "ValueError"} /\ call.events = <<>>) =>
                heap[1] = call.item
        /\ call.outcome = "returned" =>
                /\ heap[1].name = IF Missing(call.item.name)
                                  THEN Splitext(Basename(call.path))[1]
                                  ELSE call.item.name
                /\ \A i \in 1..Len(Requests) : Requests[i].body.item = heap[1]

\* C9: update leaves every field of the caller's item as it was: the PUT is
\* built from the caller's item, the response is parsed into a copy, and the
\* value returned is that copy, another object than the caller's.
C9_UpdateLeavesCallersItem ==
    call.op = "update" =>
        /\ heap[1] = call.item
        /\ call.outcome = "returned" =>
              /\ Len(call.events) = 1
              /\ call.events[1].kind = "PUT"
              /\ call.events[1].body.item = call.item
              /\ call.result.ref \in (DOMAIN heap) \ {1}
              /\ heap[call.result.ref] =
                    [call.item EXCEPT !.project_id = call.events[1].response.project_id,
                                      !.updated_at = call.events[1].response.updated_at]

\* An update returned a copy that differs from the caller's item.
C9_Witness ==
    /\ call.op = "update"
    /\ call.outcome = "returned"
    /\ Len(heap) = 2
    /\ heap[2] # heap[1]

\* C10: the endpoint keeps no state between calls: its baseurl template and
\* its parent_srv are what the constructor set, and the url of every request
\* starts with the baseurl and the site_id the server has at the time of the
\* call, whatever ran before.
C10_EndpointKeepsNoState ==
    /\ endpoint.baseurl = <<"{","0","}","/","s","i","t","e","s","/","{","1","}","/",
                            "d","a","t","a","s","o","u","r","c","e","s">>
    /\ endpoint.parent_srv = "parent_srv"
    /\ \A i \in 1..Len(Requests) :
          /\ StartsWith(Requests[i].target,
                        server.baseurl \o <<"/","s","i","t","e","s","/">> \o server.site_id
                            \o <<"/","d","a","t","a","s","o","u","r","c","e","s">>)
          /\ call.op = "get" =>
                Str(Requests[i].target) =
                    Str(server.baseurl) \o "/sites/" \o Str(server.site_id) \o "/datasources"

\* A request made after the session moved to the second site.
C10_Witness ==
    /\ server.site_id = <<"s","i","t","e","-","2">>
    /\ call.op = "get"
    /\ Len(Requests) = 1

====
